---- MODULE Spec2Model ----
(***************************************************************************)
(* RelogicChain (src/src/main.rs): a single-process proof-of-work ledger.  *)
(* Strings are sequences of bytes, a digest is the 64 lowercase hex        *)
(* characters that format!("{:x}", ..) renders, and the SHA-256            *)
(* compression is replaced by a small deterministic mixing function.       *)
(***************************************************************************)
EXTENDS Integers, Sequences, FiniteSets, TLC

\* ------------------------------------------------------------ constants
INITIAL_DIFFICULTY == 15
BLOCK_TIME_SECONDS == 10
DIFFICULTY_ADJUSTMENT_INTERVAL == 10
INITIAL_REWARD == 50
HALVING_INTERVAL == 20
\* width of a rendered digest: "0".repeat(64)
HashLen == 64

\* --------------------------------------------------------------- bounds
\* worker threads of the rayon pool
NumWorkers == 2
\* stands for u64::MAX in the nonce range 0..u64::MAX
NonceMax == 3
\* longest chain the ledger grows to
MaxBlocks == 3
\* most transactions created in one run
MaxTx == 2
\* the millisecond at which the wall clock stops advancing
MaxTime == 4
\* width of the u64 arithmetic (wrapping, overflow) in bits
U64Bits == 20
\* width of the u32 arithmetic (casts) in bits
U32Bits == 8
\* largest block index get_reward is called with on its own
MaxRewardIndex == 5400
\* timestamp of the first block of a chain built by hand
BaseTime == 60000
\* most transactions of a Merkle tree built on its own
MaxLeaves == 5
Workers == 1..NumWorkers
Nonces == 0..(NonceMax - 1)
NonceDomain == 0..NonceMax
U64Modulus == 2^U64Bits
U32Modulus == 2^U32Bits
\* outcome of an operation that panicked
PANIC == -1

\* -------------------------------------------------------------- strings
STR_coinbase == <<99, 111, 105, 110, 98, 97, 115, 101>>
STR_miner_utama == <<109, 105, 110, 101, 114, 45, 117, 116, 97, 109, 97>>
STR_test == <<116, 101, 115, 116>>
STR_Alice == <<65, 108, 105, 99, 101>>
STR_Bob == <<66, 111, 98>>
STR_Charlie == <<67, 104, 97, 114, 108, 105, 101>>
STR_David == <<68, 97, 118, 105, 100>>
STR_sig == <<115, 105, 103>>
STR_empty == <<>>

\* "0".repeat(n)
ZeroString(n) == [i \in 1..n |-> 48]

\* s.starts_with(prefix); both strings are evaluated once
starts_with(s, prefix) ==
    \E str \in {s}, pre \in {prefix} :
        /\ Len(pre) <= Len(str)
        /\ \A i \in 1..Len(pre) : str[i] = pre[i]

\* Display of an unsigned integer: its decimal digits
RECURSIVE Dec(_)
Dec(n) == IF n < 10 THEN <<48 + n>> ELSE Dec(n \div 10) \o <<48 + (n % 10)>>

\* one lowercase hex character
HexChar(v) == IF v < 10 THEN 48 + v ELSE 87 + v

\* --------------------------------------------------------------- digest
\* the mixing of the bytes lo..hi: order-sensitive, computed by halves
RECURSIVE Absorb(_, _, _)
Absorb(bytes, lo, hi) ==
    IF lo > hi THEN 0
    ELSE IF lo = hi THEN (bytes[lo] * (1 + 2 * (lo % 7)) + 6) % 16
    ELSE LET mid == (lo + hi) \div 2
         IN  (Absorb(bytes, lo, mid) + Absorb(bytes, mid + 1, hi)) % 16

\* number of leading '0' characters of the digest of a mixed value
LeadingZeros(acc) ==
    CASE acc % 8 = 1 -> INITIAL_DIFFICULTY + 1
      [] acc % 8 = 2 -> 3
      [] acc % 8 = 3 -> INITIAL_DIFFICULTY - 1
      [] acc % 8 = 4 -> HashLen - 2
      [] acc % 8 = 5 -> INITIAL_DIFFICULTY
      [] acc % 8 = 6 -> 1
      [] OTHER -> 0

\* Sha256::new(); hasher.update(bytes); format!("{:x}", hasher.finalize())
\* (the input and its mixed value are evaluated once)
Sha256Hex(bytes) ==
    CHOOSE digest \in
        {[i \in 1..HashLen |->
             IF i <= LeadingZeros(acc) THEN 48
             ELSE HexChar(1 + ((acc + i) % 15))] :
           acc \in {Absorb(input, 1, Len(input)) : input \in {bytes}}} : TRUE

\* ---------------------------------------------------------- transaction
Transaction_calculate_hash(tx) ==
    Sha256Hex(tx.from \o tx.to \o Dec(tx.amount) \o Dec(tx.timestamp) \o tx.signature)

Transaction_new(from, to, amount, signature, t) ==
    LET transaction == [id |-> STR_empty, from |-> from, to |-> to,
                        amount |-> amount, timestamp |-> t,
                        signature |-> signature]
    IN  [transaction EXCEPT !.id = Transaction_calculate_hash(transaction)]

Transaction_coinbase(to, amount, t) ==
    Transaction_new(STR_coinbase, to, amount, STR_empty, t)

\* ---------------------------------------------------------- merkle tree
MerkleTree_new(transactions) ==
    [i \in 1..Len(transactions) |-> transactions[i].id]

\* mutation: each pair is hashed right before left
RECURSIVE MerklePairs_Swapped(_, _)
MerklePairs_Swapped(level, i) ==
    IF i > Len(level) THEN <<>>
    ELSE <<Sha256Hex(level[i + 1] \o level[i])>>
         \o MerklePairs_Swapped(level, i + 2)

\* the for loop over the pairs of a level of even length, from position i
RECURSIVE MerklePairs(_, _)
MerklePairs(level, i) ==
    IF i > Len(level) THEN <<>>
    ELSE <<Sha256Hex(level[i] \o level[i + 1])>> \o MerklePairs(level, i + 2)

RECURSIVE MerkleReduce(_)
MerkleReduce(current_level) ==
    IF Len(current_level) <= 1 THEN current_level[1]
    ELSE LET padded == IF Len(current_level) % 2 # 0
                       THEN Append(current_level, current_level[Len(current_level)])
                       ELSE current_level
         IN  MerkleReduce(MerklePairs(padded, 1))

build_tree(leaves) ==
    IF Len(leaves) = 0 THEN ZeroString(HashLen)
    ELSE IF Len(leaves) = 1 THEN leaves[1]
    ELSE MerkleReduce(leaves)

\* ---------------------------------------------------------------- block
Block_new(index, previous_hash, difficulty, transactions, t) ==
    [index |-> index, timestamp |-> t, previous_hash |-> previous_hash,
     hash |-> STR_empty,
     merkle_root |-> build_tree(MerkleTree_new(transactions)),
     nonce |-> 0, difficulty |-> difficulty, transactions |-> transactions]

Block_calculate_hash(b) ==
    Sha256Hex(Dec(b.index) \o Dec(b.timestamp) \o b.previous_hash
              \o b.merkle_root \o Dec(b.nonce) \o Dec(b.difficulty))

\* ----------------------------------------------------------- chain state
\* Blockchain::get_reward; checks: the build has overflow checks (debug)
get_reward(block_index, checks) ==
    LET halvings == block_index \div HALVING_INTERVAL
        exp == halvings % U32Modulus
        pow == IF exp < U64Bits THEN 2^exp
               ELSE IF checks THEN PANIC
               ELSE 0
    IN  IF pow = PANIC \/ pow = 0 THEN PANIC
        ELSE INITIAL_REWARD \div pow

\* mutation: the quotient is truncated, not rounded
RoundDiv_Floor(num, den) == num \div den

\* f64::round of a non-negative quotient num / den, den > 0
RoundDiv(num, den) == (2 * num + den) \div (2 * den)

\* adjust_difficulty from expected_time on: the difficulty that follows
\* from the tip's difficulty and the measured time_taken >= 0
Retarget(old_difficulty, time_taken) ==
    LET expected_time ==
            DIFFICULTY_ADJUSTMENT_INTERVAL * BLOCK_TIME_SECONDS * 1000
        new_difficulty ==
            IF time_taken = 0 \/ expected_time > 4 * time_taken
            THEN old_difficulty * 4
            ELSE IF 4 * expected_time < time_taken
            THEN RoundDiv(old_difficulty, 4)
            ELSE RoundDiv(old_difficulty * expected_time, time_taken)
        as_u32 == IF new_difficulty > U32Modulus - 1
                  THEN U32Modulus - 1 ELSE new_difficulty
    IN  IF as_u32 > 1 THEN as_u32 ELSE 1

\* Blockchain::adjust_difficulty
adjust_difficulty(chain, checks) ==
    IF Len(chain) < DIFFICULTY_ADJUSTMENT_INTERVAL
    THEN chain[Len(chain)].difficulty
    ELSE
      LET last_adjustment_block ==
              chain[Len(chain) - DIFFICULTY_ADJUSTMENT_INTERVAL + 1]
          current_block == chain[Len(chain)]
          diff == current_block.timestamp - last_adjustment_block.timestamp
          time_taken == IF diff >= 0 THEN diff
                        ELSE IF checks THEN PANIC
                        ELSE diff + U64Modulus
      IN  IF time_taken = PANIC THEN PANIC
          ELSE Retarget(current_block.difficulty, time_taken)

\* ---------------------------------------------------------------- state
VARIABLES
    blocks,                \* Blockchain.blocks
    pending_transactions,  \* Blockchain.pending_transactions
    miner_address,         \* Blockchain.miner_address
    total_supply,          \* Blockchain.total_supply
    now,                   \* the wall clock Utc::now() reads
    pc,                    \* "start", "search", "check", "idle", "panicked"
    caller,                \* which operation called mine_block
    cand,                  \* the block mine_block works on
    target,                \* mine_block's difficulty argument
    reward,                \* the reward computed at the call's entry
    running,               \* the call's cancellation flag
    ctrlc_init,            \* the ctrlc crate has a handler installed
    handler_live,          \* the installed handler holds this call's flag
    found,                 \* find_any's shared "found" flag
    matches,               \* nonces whose probe returned true
    probed,                \* nonces handed to a worker
    wpc,                   \* per worker: "idle" or "hash"
    wnonce,                \* per worker: the nonce it is hashing
    hashes_done,           \* the shared attempt counter
    found_nonce,           \* find_any's result: <<>> is None, <<n>> is Some(n)
    result,                \* what the last mine_block call returned
    entry,                 \* the chain state at the entry of the last call
    tx_created,            \* transactions queued so far
    pool,                  \* threads of the rayon pool in this run
    fn_arg,                \* the argument of a function called on its own
    fn_ret                 \* its result: <<>> before it returns, then <<r>>

chainVars == <<blocks, pending_transactions, miner_address, total_supply>>
searchVars == <<found, matches, probed, wpc, wnonce, hashes_done, found_nonce>>
vars == <<blocks, pending_transactions, miner_address, total_supply, now, pc,
          caller, cand, target, reward, running, ctrlc_init, handler_live,
          found, matches, probed, wpc, wnonce, hashes_done, found_nonce,
          result, entry, tx_created, pool, fn_arg, fn_ret>>

\* the value of `cand` while no block is being built
NoBlock == Block_new(0, STR_empty, 0, <<>>, 0)

ChainSnapshot ==
    [blocks |-> blocks, pending_transactions |-> pending_transactions,
     miner_address |-> miner_address, total_supply |-> total_supply]

Miners == {STR_miner_utama}

\* the transactions main() queues before each mining call
TxInputs ==
    {[from |-> STR_Alice, to |-> STR_Bob, amount |-> 10, signature |-> STR_sig],
     [from |-> STR_Charlie, to |-> STR_David, amount |-> 5, signature |-> STR_sig]}

\* Utc::now().timestamp_millis() after a read that returned prev: each read
\* falls in the next millisecond until the clock stops
ClockRead(prev) == {IF prev < MaxTime THEN prev + 1 ELSE prev}

\* a process with a pool of p threads, at start_pc, holding `chain`: none
\* before Blockchain::new, or the one a test built on Blockchain::new("test")
\* at the time of its last block
InitState(p, start_pc, chain, arg) ==
    /\ pool = p
    /\ fn_arg = arg
    /\ fn_ret = <<>>
    /\ blocks = chain
    /\ pending_transactions = <<>>
    /\ miner_address = (IF chain = <<>> THEN STR_empty ELSE STR_test)
    /\ total_supply = (IF chain = <<>> THEN 0 ELSE INITIAL_REWARD)
    /\ now = (IF chain = <<>> THEN 0 ELSE chain[Len(chain)].timestamp)
    /\ pc = start_pc
    /\ caller = "none"
    /\ cand = NoBlock
    /\ target = 0
    /\ reward = 0
    /\ running = FALSE
    /\ ctrlc_init = FALSE
    /\ handler_live = FALSE
    /\ found = FALSE
    /\ matches = {}
    /\ probed = {}
    /\ wpc = [w \in Workers |-> "idle"]
    /\ wnonce = [w \in Workers |-> 0]
    /\ hashes_done = 0
    /\ found_nonce = <<>>
    /\ result = "none"
    /\ entry = [blocks |-> chain, pending_transactions |-> <<>>,
                miner_address |-> (IF chain = <<>> THEN STR_empty ELSE STR_test),
                total_supply |-> (IF chain = <<>> THEN 0 ELSE INITIAL_REWARD)]
    /\ tx_created = 0

\* the process before main() builds the chain
InitPool(p) == InitState(p, "start", <<>>, 0)

\* a pool of one thread (RAYON_NUM_THREADS=1): the search is sequential
Init == InitPool(1)

\* ------------------------------------------------------------ mine_block
\* mine_block up to the start of find_any: a fresh flag, the handler
\* registration, the counters. slot_free: ctrlc accepts the registration.
MineBlockEnter(block, difficulty, slot_free) ==
    /\ cand' = block
    /\ target' = difficulty
    /\ result' = "none"
    /\ ctrlc_init' = TRUE
    /\ IF slot_free
       THEN /\ pc' = "search"
            /\ running' = TRUE
            /\ handler_live' = TRUE
       ELSE /\ pc' = "panicked"
            /\ running' = TRUE
            /\ handler_live' = handler_live
    /\ found' = FALSE
    /\ matches' = {}
    /\ probed' = {}
    /\ wpc' = [w \in Workers |-> "idle"]
    /\ wnonce' = [w \in Workers |-> 0]
    /\ hashes_done' = 0
    /\ found_nonce' = <<>>

\* the closure's result for a nonce when it found the flag still true
ProbeMatches(block, nonce, difficulty) ==
    LET block_clone == [block EXCEPT !.nonce = nonce]
        hash == Block_calculate_hash(block_clone)
    IN  starts_with(hash, ZeroString(difficulty))

\* mutation: the closure never looks at the flag
ProbeSkips_Never(flag) == FALSE

\* mutation: the closure returns true whatever the flag holds
ProbeSkips_Always(flag) == TRUE

\* if !running.load(..) { return true; }: the probe ends without hashing
ProbeSkips(flag) == ~flag

\* a worker takes the next nonce and loads the flag; the workers are
\* interchangeable, so the idle worker of least number takes it
ProbeStart(w, nonce) ==
    /\ pc = "search"
    /\ w <= pool
    /\ wpc[w] = "idle"
    /\ \A v \in Workers : wpc[v] = "idle" => w <= v
    /\ ~found
    /\ nonce \notin probed
    /\ probed' = probed \cup {nonce}
    /\ IF ProbeSkips(running)
       THEN /\ found' = TRUE
            /\ matches' = matches \cup {nonce}
            /\ UNCHANGED <<wpc, wnonce>>
       ELSE /\ wpc' = [wpc EXCEPT ![w] = "hash"]
            /\ wnonce' = [wnonce EXCEPT ![w] = nonce]
            /\ UNCHANGED <<found, matches>>
    /\ UNCHANGED <<chainVars, now, pc, caller, cand, target, reward, running,
                   ctrlc_init, handler_live, hashes_done, found_nonce, result,
                   entry, tx_created, pool, fn_arg, fn_ret>>

\* the worker hashes its clone of the block and counts the attempt
ProbeHash(w) ==
    /\ pc = "search"
    /\ wpc[w] = "hash"
    /\ hashes_done' = hashes_done + 1
    /\ wpc' = [wpc EXCEPT ![w] = "idle"]
    /\ IF ProbeMatches(cand, wnonce[w], target)
       THEN /\ found' = TRUE
            /\ matches' = matches \cup {wnonce[w]}
       ELSE UNCHANGED <<found, matches>>
    /\ wnonce' = [wnonce EXCEPT ![w] = 0]
    /\ UNCHANGED <<chainVars, now, pc, caller, cand, target, reward, running,
                   ctrlc_init, handler_live, probed, found_nonce, result,
                   entry, tx_created, pool, fn_arg, fn_ret>>

\* find_any returns: every worker has stopped
FindAnyReturn ==
    /\ pc = "search"
    /\ \A w \in Workers : wpc[w] = "idle"
    /\ found \/ probed = Nonces
    /\ IF matches = {}
       THEN found_nonce' = <<>>
       ELSE \E n \in matches : found_nonce' = <<n>>
    /\ pc' = "check"
    /\ UNCHANGED <<chainVars, now, caller, cand, target, reward, running,
                   ctrlc_init, handler_live, found, matches, probed, wpc,
                   wnonce, hashes_done, result, entry, tx_created, pool, fn_arg, fn_ret>>

\* the user's Ctrl-C: the installed handler stores false into its flag
CtrlC ==
    /\ pc \in {"search", "check"}
    /\ handler_live
    /\ running
    /\ running' = FALSE
    /\ UNCHANGED <<chainVars, now, pc, caller, cand, target, reward,
                   ctrlc_init, handler_live, searchVars, result, entry,
                   tx_created, pool, fn_arg, fn_ret>>

\* mutation: the found nonce is used before the flag is looked at again
MineBlockResult_FoundFirst ==
    IF found_nonce # <<>> THEN "Ok"
    ELSE IF ~running THEN "Interrupted"
    ELSE "NoValidNonceFound"

\* mine_block from the final flag check to its return value
MineBlockResult ==
    IF ~running THEN "Interrupted"
    ELSE IF found_nonce # <<>> THEN "Ok"
    ELSE "NoValidNonceFound"

\* mutation: the probes write their nonce into the block, not into a clone
MineBlockBlock_InPlace ==
    IF MineBlockResult = "Ok"
    THEN LET with_nonce == [cand EXCEPT !.nonce = found_nonce[1]]
         IN  [with_nonce EXCEPT !.hash = Block_calculate_hash(with_nonce)]
    ELSE [cand EXCEPT !.nonce = hashes_done]

\* mutation: the hash is computed before the nonce is stored
MineBlockBlock_StaleHash ==
    IF MineBlockResult = "Ok"
    THEN [cand EXCEPT !.nonce = found_nonce[1],
                      !.hash = Block_calculate_hash(cand)]
    ELSE cand

\* the block as mine_block leaves it
MineBlockBlock ==
    IF MineBlockResult = "Ok"
    THEN LET with_nonce == [cand EXCEPT !.nonce = found_nonce[1]]
         IN  [with_nonce EXCEPT !.hash = Block_calculate_hash(with_nonce)]
    ELSE cand

\* mutation: the Err of mine_block is dropped and the block is appended
Propagates_Never(res) == FALSE

\* mine_block(..)?: an Err leaves mine_and_add_block at once
Propagates(res) == res # "Ok"

\* mutation: the reward is counted twice
SupplyAfter_Twice(supply, r) == supply + r + r

\* self.total_supply += reward
SupplyAfter(supply, r) == supply + r

\* mutation: the new block takes the place of the tip
Pushed_OverTip(chain, block) ==
    IF chain = <<>> THEN <<block>> ELSE [chain EXCEPT ![Len(chain)] = block]

\* blocks.push(block)
Pushed(chain, block) == Append(chain, block)

\* mine_block returns and its caller finishes
MineBlockReturn(checks) ==
    /\ pc = "check"
    /\ result' = MineBlockResult
    /\ cand' = MineBlockBlock
    /\ handler_live' = FALSE
    /\ IF caller = "new"
       THEN IF MineBlockResult = "Ok"
            THEN /\ total_supply' = SupplyAfter(total_supply, get_reward(0, checks))
                 /\ blocks' = Pushed(blocks, MineBlockBlock)
                 /\ pc' = "idle"
            ELSE /\ pc' = "panicked"
                 /\ UNCHANGED <<blocks, total_supply>>
       ELSE IF Propagates(MineBlockResult)
            THEN /\ pc' = "idle"
                 /\ UNCHANGED <<blocks, total_supply>>
            ELSE /\ total_supply' = SupplyAfter(total_supply, reward)
                 /\ blocks' = Pushed(blocks, MineBlockBlock)
                 /\ pc' = "idle"
    /\ found' = FALSE
    /\ matches' = {}
    /\ probed' = {}
    /\ hashes_done' = 0
    /\ UNCHANGED <<pending_transactions, miner_address, now, caller, target,
                   reward, running, ctrlc_init, wpc, wnonce, found_nonce,
                   entry, tx_created, pool, fn_arg, fn_ret>>

\* ------------------------------------------------------------ operations
\* Blockchain::new with create_genesis_block, up to the genesis search
New(miner, slot_free, checks, t1, t2) ==
    /\ pc = "start"
    /\ miner_address' = miner
    /\ pending_transactions' = <<>>
    /\ blocks' = <<>>
    /\ total_supply' = 0
    /\ entry' = ChainSnapshot
    /\ caller' = "new"
    /\ reward' = get_reward(0, checks)
    /\ now' = t2
    /\ UNCHANGED <<tx_created, pool, fn_arg, fn_ret>>
    /\ LET coinbase_tx == Transaction_coinbase(miner, get_reward(0, checks), t1)
           genesis_block == Block_new(0, ZeroString(HashLen),
                                      INITIAL_DIFFICULTY, <<coinbase_tx>>, t2)
       IN  MineBlockEnter(genesis_block, INITIAL_DIFFICULTY, slot_free)

\* main(): blockchain.pending_transactions.push(Transaction::new(..))
AddTransaction(tx, t) ==
    /\ pc = "idle"
    /\ tx_created < MaxTx
    /\ tx_created' = tx_created + 1
    /\ pending_transactions' =
           Append(pending_transactions,
                  Transaction_new(tx.from, tx.to, tx.amount, tx.signature, t))
    /\ now' = t
    /\ cand' = NoBlock
    /\ result' = "none"
    /\ found_nonce' = <<>>
    /\ entry' = [ChainSnapshot EXCEPT
                     !.pending_transactions = pending_transactions']
    /\ UNCHANGED <<blocks, miner_address, total_supply, pc, caller, target,
                   reward, running, ctrlc_init, handler_live, found, matches,
                   probed, wpc, wnonce, hashes_done, pool, fn_arg, fn_ret>>

\* mutation: the pending transactions are copied, not drained
AfterDrain_Keep(pending) == pending

\* self.pending_transactions.drain(..): what the drain leaves behind
AfterDrain(pending) == <<>>

\* mutation: the coinbase is pushed at the end
AssembleTransactions_Push(coinbase_tx, drained) == drained \o <<coinbase_tx>>

\* mutation: the drained transactions are dropped
AssembleTransactions_Drop(coinbase_tx, drained) == <<coinbase_tx>>

\* transactions.insert(0, coinbase) on the drained transactions
AssembleTransactions(coinbase_tx, drained) == <<coinbase_tx>> \o drained

\* self.blocks.len() as u64
NextIndex(chain) == Len(chain)

\* mutation: every block is linked to the genesis block
TipHash_First(chain) == chain[1].hash

\* self.blocks.last().unwrap().hash.clone()
TipHash(chain) == chain[Len(chain)].hash

\* Blockchain::mine_and_add_block up to the search of mine_block
MineAndAddBlock(slot_free, checks, t1, t2) ==
    /\ pc = "idle"
    /\ entry' = ChainSnapshot
    /\ caller' = "mine_and_add_block"
    /\ UNCHANGED <<blocks, miner_address, total_supply, tx_created, pool, fn_arg, fn_ret>>
    /\ LET r == get_reward(Len(blocks), checks)
           transactions ==
               AssembleTransactions(Transaction_coinbase(miner_address, r, t1),
                                    pending_transactions)
           difficulty == adjust_difficulty(blocks, checks)
           new_block == Block_new(NextIndex(blocks), TipHash(blocks),
                                  difficulty, transactions, t2)
       IN  IF r = PANIC
           THEN /\ pc' = "panicked"
                /\ UNCHANGED <<pending_transactions, now, cand, target, reward,
                               running, ctrlc_init, handler_live, searchVars,
                               result>>
           ELSE /\ pending_transactions' = AfterDrain(pending_transactions)
                /\ reward' = r
                /\ IF difficulty = PANIC
                   THEN /\ pc' = "panicked"
                        /\ now' = t1
                        /\ UNCHANGED <<cand, target, running, ctrlc_init,
                                       handler_live, searchVars, result>>
                   ELSE /\ now' = t2
                        /\ MineBlockEnter(new_block, difficulty, slot_free)

Next ==
    \/ \E miner \in Miners, slot_free, checks \in BOOLEAN :
         \E t1 \in ClockRead(now) : \E t2 \in ClockRead(t1) :
           New(miner, slot_free, checks, t1, t2)
    \/ \E tx \in TxInputs, t \in ClockRead(now) : AddTransaction(tx, t)
    \/ \E slot_free, checks \in BOOLEAN :
         \E t1 \in ClockRead(now) : \E t2 \in ClockRead(t1) :
           /\ Len(blocks) < MaxBlocks
           /\ MineAndAddBlock(slot_free, checks, t1, t2)
    \/ \E w \in Workers, nonce \in Nonces : ProbeStart(w, nonce)
    \/ \E w \in Workers : ProbeHash(w)
    \/ FindAnyReturn
    \/ CtrlC
    \/ \E checks \in BOOLEAN : MineBlockReturn(checks)

Spec == Init /\ [][Next]_vars

\* the search with a pool of NumWorkers threads: the genesis block and the
\* first block mined after it
InitMine == InitPool(NumWorkers)

NextMine ==
    \/ \E miner \in Miners, slot_free, checks \in BOOLEAN :
         \E t1 \in ClockRead(now) : \E t2 \in ClockRead(t1) :
           New(miner, slot_free, checks, t1, t2)
    \/ \E tx \in TxInputs, t \in ClockRead(now) : AddTransaction(tx, t)
    \/ \E slot_free, checks \in BOOLEAN :
         \E t1 \in ClockRead(now) : \E t2 \in ClockRead(t1) :
           /\ Len(blocks) = 1
           /\ MineAndAddBlock(slot_free, checks, t1, t2)
    \/ \E w \in Workers, nonce \in Nonces : ProbeStart(w, nonce)
    \/ \E w \in Workers : ProbeHash(w)
    \/ FindAnyReturn
    \/ CtrlC
    \/ \E checks \in BOOLEAN : MineBlockReturn(checks)

SpecMine == InitMine /\ [][NextMine]_vars

\* the same search with the scheduling of threads: a worker that can take a
\* nonce or finish a hash does so, find_any returns when its workers have
\* stopped, and mine_block goes on after find_any
SpecMineFair ==
    /\ SpecMine
    /\ WF_vars(\E w \in Workers, nonce \in Nonces : ProbeStart(w, nonce))
    /\ WF_vars(\E w \in Workers : ProbeHash(w))
    /\ WF_vars(FindAnyReturn)
    /\ WF_vars(\E checks \in BOOLEAN : MineBlockReturn(checks))

\* one process as it runs: ctrlc accepts the first registration of the
\* process and refuses every later one (Error::MultipleHandlers)
NextProcess ==
    \/ \E miner \in Miners, checks \in BOOLEAN :
         \E t1 \in ClockRead(now) : \E t2 \in ClockRead(t1) :
           New(miner, ~ctrlc_init, checks, t1, t2)
    \/ \E tx \in TxInputs, t \in ClockRead(now) : AddTransaction(tx, t)
    \/ \E checks \in BOOLEAN :
         \E t1 \in ClockRead(now) : \E t2 \in ClockRead(t1) :
           /\ Len(blocks) < MaxBlocks
           /\ MineAndAddBlock(~ctrlc_init, checks, t1, t2)
    \/ \E w \in Workers, nonce \in Nonces : ProbeStart(w, nonce)
    \/ \E w \in Workers : ProbeHash(w)
    \/ FindAnyReturn
    \/ CtrlC
    \/ \E checks \in BOOLEAN : MineBlockReturn(checks)

SpecProcess == InitMine /\ [][NextProcess]_vars

\* ------------------------------------------------- functions on their own
RewardInputs == 0..MaxRewardIndex

InitReward ==
    \E block_index \in RewardInputs, checks \in BOOLEAN :
        InitState(1, "call_get_reward", <<>>,
                  [block_index |-> block_index, checks |-> checks])

\* chain.get_reward(block_index)
CallGetReward ==
    /\ pc = "call_get_reward"
    /\ fn_ret' = <<get_reward(fn_arg.block_index, fn_arg.checks)>>
    /\ pc' = "done"
    /\ UNCHANGED <<chainVars, now, caller, cand, target, reward, running,
                   ctrlc_init, handler_live, searchVars, result, entry,
                   tx_created, pool, fn_arg>>

SpecReward == InitReward /\ [][CallGetReward]_vars

\* milliseconds between two blocks of a chain built by hand; the tests use
\* -5000 and 20000
StepInputs == {-5000, 0, 1, 2777, 2778, 10500, 10752, 10753, 11111, 11112, 11500,
               20000, 44444, 44445}

\* difficulty of the blocks of a chain built by hand
DiffInputs == {1, 2, 5, INITIAL_DIFFICULTY, 4 * INITIAL_DIFFICULTY,
               U32Modulus - 1}

\* the tests' chain: n copies of one block, index and timestamp overwritten
BuiltChain(n, step, difficulty) ==
    [i \in 1..n |->
        [NoBlock EXCEPT !.index = i - 1,
                        !.timestamp = BaseTime + (i - 1) * step,
                        !.difficulty = difficulty]]

InitAdjust ==
    \E n \in {DIFFICULTY_ADJUSTMENT_INTERVAL, DIFFICULTY_ADJUSTMENT_INTERVAL + 1},
       step \in StepInputs, difficulty \in DiffInputs, checks \in BOOLEAN :
        InitState(1, "call_adjust_difficulty",
                  BuiltChain(n, step, difficulty), [checks |-> checks])

\* chain.adjust_difficulty()
CallAdjustDifficulty ==
    /\ pc = "call_adjust_difficulty"
    /\ fn_ret' = <<adjust_difficulty(blocks, fn_arg.checks)>>
    /\ pc' = "done"
    /\ UNCHANGED <<chainVars, now, caller, cand, target, reward, running,
                   ctrlc_init, handler_live, searchVars, result, entry,
                   tx_created, pool, fn_arg>>

SpecAdjust == InitAdjust /\ [][CallAdjustDifficulty]_vars

\* mine_and_add_block on a chain of I or I + 1 blocks built by hand
InitRetarget ==
    \E n \in {DIFFICULTY_ADJUSTMENT_INTERVAL, DIFFICULTY_ADJUSTMENT_INTERVAL + 1},
       step \in StepInputs, difficulty \in DiffInputs :
        InitState(1, "idle", BuiltChain(n, step, difficulty), 0)

NextRetarget ==
    \/ \E slot_free, checks \in BOOLEAN :
         \E t1 \in ClockRead(now) : \E t2 \in ClockRead(t1) :
           /\ Len(blocks) < DIFFICULTY_ADJUSTMENT_INTERVAL + MaxBlocks - 1
           /\ MineAndAddBlock(slot_free, checks, t1, t2)
    \/ \E w \in Workers, nonce \in Nonces : ProbeStart(w, nonce)
    \/ \E w \in Workers : ProbeHash(w)
    \/ FindAnyReturn
    \/ CtrlC
    \/ \E checks \in BOOLEAN : MineBlockReturn(checks)

SpecRetarget == InitRetarget /\ [][NextRetarget]_vars

\* the transactions a tree is built from: a coinbase and main()'s two
MerkleTxInputs ==
    {Transaction_coinbase(STR_miner_utama, INITIAL_REWARD, 1)}
    \cup {Transaction_new(tx.from, tx.to, tx.amount, tx.signature, 1) :
             tx \in TxInputs}

InitMerkle ==
    \E n \in 0..MaxLeaves : \E transactions \in [1..n -> MerkleTxInputs] :
        InitState(1, "call_build_tree", <<>>, [transactions |-> transactions])

\* MerkleTree::new(&transactions).build_tree()
CallBuildTree ==
    /\ pc = "call_build_tree"
    /\ fn_ret' = <<build_tree(MerkleTree_new(fn_arg.transactions))>>
    /\ pc' = "done"
    /\ UNCHANGED <<chainVars, now, caller, cand, target, reward, running,
                   ctrlc_init, handler_live, searchVars, result, entry,
                   tx_created, pool, fn_arg>>

SpecMerkle == InitMerkle /\ [][CallBuildTree]_vars

\* ---------------------------------------------------------------- claims
MiningErrors == {"Interrupted", "NoValidNonceFound"}

\* mine_and_add_block has returned and nothing was done since
Returned ==
    /\ pc = "idle"
    /\ caller = "mine_and_add_block"
    /\ result # "none"

Failed == Returned /\ result \in MiningErrors

Succeeded == Returned /\ result = "Ok"

RECURSIVE SumRewards(_)
SumRewards(n) == IF n = 0 THEN 0 ELSE SumRewards(n - 1) + get_reward(n - 1, FALSE)

RECURSIVE SumCoinbase(_, _)
SumCoinbase(chain, n) ==
    IF n = 0 THEN 0
    ELSE SumCoinbase(chain, n - 1) + chain[n].transactions[1].amount

\* C1: when mine_and_add_block returns Err(Interrupted) or
\* Err(NoValidNonceFound), blocks (length and contents) and total_supply are
\* what they were when the call was entered.
C1_FailedMiningKeepsChain ==
    Failed => /\ blocks = entry.blocks
              /\ total_supply = entry.total_supply

\* a failed call on a chain that already holds a mined block
C1_Witness ==
    /\ Failed
    /\ result = "NoValidNonceFound"
    /\ Len(blocks) >= 2

\* C2: once the cancellation flag is cleared during a call of mine_block it
\* stays cleared, and the call then returns Err(Interrupted) whatever the
\* workers found, leaving the block's nonce and hash as they were.
C2_CancelledSearchIsInterrupted ==
    [][(pc \in {"search", "check"} /\ ~running)
         => /\ ~running'
            /\ pc' \notin {"search", "check"}
                 => /\ result' = "Interrupted"
                    /\ cand'.nonce = cand.nonce
                    /\ cand'.hash = cand.hash]_vars

\* an interrupted call in which a worker had found a nonce that satisfies
\* the difficulty
C2_Witness ==
    /\ result = "Interrupted"
    /\ found_nonce # <<>>
    /\ ProbeMatches(cand, found_nonce[1], target)
    /\ cand.nonce = 0
    /\ cand.hash = STR_empty

\* C3: a block mine_block returned Ok for stores the header hash of its
\* fields, with at least `difficulty` leading '0'; so does every block of
\* the chain.
C3_MinedBlocksProveWork ==
    /\ result = "Ok"
         => /\ cand.hash = Block_calculate_hash(cand)
            /\ starts_with(cand.hash, ZeroString(target))
    /\ \A i \in 1..Len(blocks) :
         /\ blocks[i].hash = Block_calculate_hash(blocks[i])
         /\ starts_with(blocks[i].hash, ZeroString(blocks[i].difficulty))

\* a chain whose second block was mined with a nonce other than 0
C3_Witness ==
    /\ result = "Ok"
    /\ Len(blocks) >= 2
    /\ blocks[2].nonce > 0

\* C4: blocks[i].index = i, the genesis block's previous_hash is 64 '0' and
\* every later block's previous_hash is the hash of the block before it.
C4_ChainIsLinked ==
    \A i \in 1..Len(blocks) :
        /\ blocks[i].index = i - 1
        /\ i = 1 => blocks[i].previous_hash = ZeroString(HashLen)
        /\ i > 1 => blocks[i].previous_hash = blocks[i - 1].hash

\* a chain of three blocks, reached through a failed call as well
C4_Witness ==
    /\ Len(blocks) = 3
    /\ blocks[3].previous_hash # blocks[1].hash

\* C5: total_supply is the sum of get_reward(i) over the chain, which is the
\* sum of the coinbase amounts, and it changes only in a step that appends a
\* block.
C5_SupplyIsSumOfRewards ==
    /\ [](pc \in {"idle", "panicked"} /\ Len(blocks) > 0
            => /\ total_supply = SumRewards(Len(blocks))
               /\ total_supply = SumCoinbase(blocks, Len(blocks)))
    /\ [][total_supply' # total_supply
            => Len(blocks') = Len(blocks) + 1]_vars

\* three blocks, three rewards
C5_Witness ==
    /\ pc = "idle"
    /\ Len(blocks) = 3
    /\ total_supply = 3 * INITIAL_REWARD

\* C6: on Ok exactly one block is appended; its transactions are the
\* coinbase (from "coinbase", to the miner, amount get_reward(n), empty
\* signature) followed by the k pending transactions in order; total_supply
\* grew by get_reward(n).
C6_SuccessAppendsAssembledBlock ==
    Succeeded =>
        LET n == Len(entry.blocks)
            k == Len(entry.pending_transactions)
            b == blocks[Len(blocks)]
        IN  /\ Len(blocks) = n + 1
            /\ SubSeq(blocks, 1, n) = entry.blocks
            /\ Len(b.transactions) = k + 1
            /\ b.transactions[1].from = STR_coinbase
            /\ b.transactions[1].to = miner_address
            /\ b.transactions[1].amount = get_reward(n, FALSE)
            /\ b.transactions[1].signature = STR_empty
            /\ \A j \in 1..k :
                 b.transactions[j + 1] = entry.pending_transactions[j]
            /\ total_supply = entry.total_supply + get_reward(n, FALSE)

\* a successful call that took two different pending transactions
C6_Witness ==
    /\ Succeeded
    /\ Len(entry.pending_transactions) = 2
    /\ entry.pending_transactions[1] # entry.pending_transactions[2]

\* C7 as stated: after a failed call every field of the chain state is what
\* it was at the call's entry.
C7_FailedCallLeavesEveryField == Failed => ChainSnapshot = entry

\* C7 amended: after a failed call blocks, miner_address and total_supply
\* are what they were at the call's entry, and pending_transactions is
\* empty whatever it held.
C7_FailedCallLeavesAllButPending ==
    Failed => /\ blocks = entry.blocks
              /\ miner_address = entry.miner_address
              /\ total_supply = entry.total_supply
              /\ pending_transactions = <<>>

\* an interrupted call that had taken a pending transaction
C7_Witness ==
    /\ Failed
    /\ result = "Interrupted"
    /\ entry.pending_transactions # <<>>

\* C8: after mine_and_add_block returns, with any outcome,
\* pending_transactions is empty; on Ok the drained transactions are in the
\* appended block, on Err no block took them and they are not put back.
C8_PendingEmptyAfterCall ==
    Returned =>
        /\ pending_transactions = <<>>
        /\ result = "Ok" =>
             \A j \in 1..Len(entry.pending_transactions) :
               \E m \in 1..Len(blocks[Len(blocks)].transactions) :
                 blocks[Len(blocks)].transactions[m]
                     = entry.pending_transactions[j]
        /\ result # "Ok" => Len(blocks) = Len(entry.blocks)

\* a call that found no nonce and lost two pending transactions
C8_Witness ==
    /\ Returned
    /\ result = "NoValidNonceFound"
    /\ Len(entry.pending_transactions) = 2

\* floor(r / 2^h), by h halvings
RECURSIVE Halve(_, _)
Halve(r, h) == IF h = 0 \/ r = 0 THEN r ELSE Halve(r \div 2, h - 1)

\* C9: for every block_index get_reward returns
\* floor(INITIAL_REWARD / 2^floor(block_index / HALVING_INTERVAL)), which is
\* 0 once 2^halvings exceeds INITIAL_REWARD.
C9_RewardIsHalvedReward ==
    pc = "done" =>
        fn_ret = <<Halve(INITIAL_REWARD, fn_arg.block_index \div HALVING_INTERVAL)>>

\* what adjust_difficulty compares, and what it returned
ExpectedTime == DIFFICULTY_ADJUSTMENT_INTERVAL * BLOCK_TIME_SECONDS * 1000

TipDifficulty == blocks[Len(blocks)].difficulty

TimestampDiff ==
    blocks[Len(blocks)].timestamp
    - blocks[Len(blocks) - DIFFICULTY_ADJUSTMENT_INTERVAL + 1].timestamp

\* the span as the unsigned subtraction yields it when it does not fault
MeasuredSpan ==
    IF TimestampDiff >= 0 THEN TimestampDiff ELSE TimestampDiff + U64Modulus

AdjustCalled ==
    /\ pc = "done"
    /\ Len(blocks) >= DIFFICULTY_ADJUSTMENT_INTERVAL

AdjustReturned == AdjustCalled /\ fn_ret # <<PANIC>>

C11_CancelStopsSearch ==
    /\ [][(pc = "search" /\ ~running) =>
            /\ \A w \in Workers : wpc'[w] = "hash" => wpc[w] = "hash"
            /\ hashes_done' # hashes_done =>
                 /\ hashes_done' = hashes_done + 1
                 /\ Cardinality({w \in Workers : wpc'[w] = "hash"})
                      = Cardinality({w \in Workers : wpc[w] = "hash"}) - 1]_vars
    /\ (pc = "search" /\ ~running)
         ~> (pc \in {"idle", "panicked"} /\ result = "Interrupted")
    /\ [](Returned /\ result = "Interrupted"
            => Len(blocks) = Len(entry.blocks))

\* the flag was cleared inside mine_and_add_block, a probe that started
\* afterwards ended the search, and another worker is still hashing
C11_Witness ==
    /\ pc = "search"
    /\ caller = "mine_and_add_block"
    /\ ~running
    /\ found
    /\ \E w \in Workers : wpc[w] = "hash"

\* the reference construction: the level above pairs position 2j-1 with
\* position 2j, or with itself when it is the odd last one
ReferenceLevelUp(level) ==
    [j \in 1..((Len(level) + 1) \div 2) |->
        Sha256Hex(level[2 * j - 1]
                  \o level[IF 2 * j <= Len(level) THEN 2 * j ELSE Len(level)])]

RECURSIVE ReferenceReduce(_)
ReferenceReduce(level) ==
    IF Len(level) = 1 THEN level[1]
    ELSE ReferenceReduce(ReferenceLevelUp(level))

ReferenceRoot(leaves) ==
    IF Len(leaves) = 0 THEN ZeroString(HashLen) ELSE ReferenceReduce(leaves)

\* C12: build_tree returns the root of the reference construction (64 '0'
\* for no leaf, the leaf itself for one leaf, pairwise digests with the odd
\* last element doubled otherwise), and for two or more leaves the root is
\* not the all-zero string.
C12_BuildTreeIsReference ==
    (pc = "done" /\ fn_arg.transactions \in Seq(MerkleTxInputs)) =>
        LET leaves == [i \in 1..Len(fn_arg.transactions) |->
                          fn_arg.transactions[i].id]
        IN  /\ fn_ret = <<ReferenceRoot(leaves)>>
            /\ Len(leaves) >= 2 => fn_ret[1] # ZeroString(HashLen)

\* a tree of five different-ordered leaves: odd at the first and the third
\* level
C12_Witness ==
    /\ pc = "done"
    /\ Len(fn_arg.transactions) = 5
    /\ fn_arg.transactions[1] # fn_arg.transactions[2]
    /\ fn_arg.transactions[4] # fn_arg.transactions[5]
    /\ Len(fn_ret[1]) = HashLen

\* C13: on a chain of n >= I blocks adjust_difficulty measures time_taken
\* from the block I positions before the tip (position n-1-I, which exists
\* when n > I) to the tip, so its result is the retarget of that span.
C13_MeasuresFromIBack ==
    (AdjustCalled /\ Len(blocks) > DIFFICULTY_ADJUSTMENT_INTERVAL
       /\ fn_ret # <<PANIC>> /\ TimestampDiff >= 0) =>
        fn_ret = <<Retarget(TipDifficulty,
                            blocks[Len(blocks)].timestamp
                            - blocks[Len(blocks)
                                     - DIFFICULTY_ADJUSTMENT_INTERVAL].timestamp)>>

\* C14: the difficulty is recalculated only at a multiple of I: of two
\* blocks mined one after the other, the second carries the difficulty of
\* the first unless its index is a multiple of I.
C14_DifficultyHeldBetweenRetargets ==
    \A i \in 2..Len(blocks) :
        (/\ blocks[i].hash # STR_empty
         /\ blocks[i - 1].hash # STR_empty
         /\ blocks[i].index % DIFFICULTY_ADJUSTMENT_INTERVAL # 0)
            => blocks[i].difficulty = blocks[i - 1].difficulty

\* C15: mine_block receives the block as Block::new built it (hash empty,
\* nonce 0, Merkle root of its transactions), leaves it alone while it
\* searches, and on return has changed nonce and hash only (Ok) or nothing
\* (Err).
C15_MineBlockWritesNonceAndHashOnly ==
    [][/\ (pc # "search" /\ pc' = "search")
            => /\ cand'.hash = STR_empty
               /\ cand'.nonce = 0
               /\ cand'.merkle_root
                    = build_tree(MerkleTree_new(cand'.transactions))
       /\ (pc \in {"search", "check"} /\ pc' \in {"search", "check"})
            => cand' = cand
       /\ (pc = "check" /\ pc' # "check")
            => IF result' = "Ok"
               THEN cand' = [cand EXCEPT !.nonce = cand'.nonce,
                                         !.hash = cand'.hash]
               ELSE /\ cand' = cand
                    /\ cand'.hash = STR_empty
                    /\ cand'.nonce = 0]_vars

\* a block with two transactions was mined with a nonce other than 0, and
\* its Merkle root is still the one of its transactions
C15_Witness ==
    /\ Succeeded
    /\ cand.nonce # 0
    /\ cand.hash # STR_empty
    /\ Len(cand.transactions) >= 2
    /\ cand.merkle_root = build_tree(MerkleTree_new(cand.transactions))

\* C16: without cancellation mine_block returns Err(NoValidNonceFound) only
\* if no nonce of the whole domain, the largest value included, gives a
\* hash with the required zeros.
C16_SearchCoversDomain ==
    (pc \in {"idle", "panicked"} /\ result = "NoValidNonceFound") =>
        \A nonce \in NonceDomain : ~ProbeMatches(cand, nonce, target)

\* C17: once Blockchain::new has returned blocks is never empty; no step
\* changes or removes a block of the chain; a call that returns Ok has
\* appended exactly one block and a call that returns Err none.
C17_BlocksAppendOnly ==
    /\ []((pc = "idle" \/ caller = "mine_and_add_block") => Len(blocks) >= 1)
    /\ [][\/ blocks' = blocks
          \/ /\ Len(blocks') = Len(blocks) + 1
             /\ SubSeq(blocks', 1, Len(blocks)) = blocks]_vars
    /\ [](Succeeded => /\ Len(blocks) = Len(entry.blocks) + 1
                       /\ SubSeq(blocks, 1, Len(entry.blocks)) = entry.blocks)
    /\ [](Failed => blocks = entry.blocks)

\* a call failed on a chain of two blocks and left both in place
C17_Witness ==
    /\ Failed
    /\ Len(blocks) = 2
    /\ blocks = entry.blocks
    /\ blocks[2].index = 1

\* C18: under every interleaving of Ctrl-C with the probes, a flag once
\* cleared stays cleared for the rest of the call, a nonce whose probe
\* returned true without a matching hash is present only when the flag is
\* cleared, and mine_block returns Ok only with a block whose hash is the
\* hash of its fields and has the required zeros.
C18_SentinelNeverAccepted ==
    /\ [][(pc \in {"search", "check"} /\ ~running) => ~running']_vars
    /\ [](pc \in {"search", "check"}
            => \A nonce \in matches :
                 ~ProbeMatches(cand, nonce, target) => ~running)
    /\ [](result = "Ok"
            => /\ cand.hash = Block_calculate_hash(cand)
               /\ starts_with(cand.hash, ZeroString(target)))

\* find_any handed back a nonce that matches nothing, taken from a probe
\* that saw the flag cleared, while another worker had found a real match
C18_Witness ==
    /\ pc = "check"
    /\ found_nonce # <<>>
    /\ ~ProbeMatches(cand, found_nonce[1], target)
    /\ \E nonce \in matches : ProbeMatches(cand, nonce, target)

\* C19: every mine_block invocation of a process registers its handler, the
\* genesis search in Blockchain::new and the search of each
\* mine_and_add_block alike: no mine_and_add_block call ends in a panic, and
\* a search in progress has the installed handler on its own flag.
C19_EveryCallRegisters ==
    /\ caller = "mine_and_add_block" => pc # "panicked"
    /\ pc = "search" => handler_live

\* C20: adjust_difficulty is total on chains of I blocks or more whatever
\* the order of their timestamps: it does not fault on the subtraction and
\* returns a difficulty between 1 and 4 times the tip's.
C20_AdjustIsTotal ==
    AdjustCalled =>
        /\ fn_ret # <<PANIC>>
        /\ 1 <= fn_ret[1]
        /\ fn_ret[1] <= 4 * TipDifficulty

====
